---- MODULE Spec2Model ----
(***************************************************************************)
(* sqlingo code generator (generator/generator.go).                        *)
(*                                                                         *)
(* Four specifications share this module:                                  *)
(*   Spec      one run of Generate, a step per collaborator call           *)
(*   SpecIdent convertToExportedIdentifier applied to a name, then to its  *)
(*             own output, with forceCases made of letters and digits      *)
(*   SpecFold  the same, with a forceCases entry that is no letter         *)
(*   SpecType  getType applied to one field descriptor                     *)
(*                                                                         *)
(* A Go string is a TLA+ string; a rune is a string of length 1.  Two      *)
(* runes cannot be written inside a string literal of a TLA+ module and    *)
(* are denoted by a character that occurs nowhere else in the model:       *)
(*   Ypogegrammeni  U+0345 COMBINING GREEK YPOGEGRAMMENI, written "~"      *)
(*   Backtick       U+0060 GRAVE ACCENT, written "'"                       *)
(* A Go error is a sequence: <<>> is nil, <<msg>> an error with a message. *)
(***************************************************************************)
EXTENDS Integers, Sequences, FiniteSets, TLC

VARIABLES
    \* Generate: what flag.Parse makes of the command line, the flags and the
    \* driver registry (fixed during a run)
    flagParse, driverName, registered, outputPath, databaseConnection, tables,
    forcecases,
    \* Generate: position, locals, and what the collaborators have seen
    pc, options, fetcher, dbName, idx, calls, sink, result, exitCode,
    \* convertToExportedIdentifier: input, forceCases, output, output of the output
    idPc, idIn, idFc, idOut, idAgain,
    \* getType: the descriptor and the returned triple
    tPc, fd, mapped

genVars == <<flagParse, driverName, registered, outputPath, databaseConnection, tables,
             forcecases, pc, options, fetcher, dbName, idx, calls, sink, result,
             exitCode>>
identVars == <<idPc, idIn, idFc, idOut, idAgain>>
typeVars == <<tPc, fd, mapped>>
vars == <<genVars, identVars, typeVars>>

-----------------------------------------------------------------------------
(* Bounds *)

\* longest raw name given to convertToExportedIdentifier in SpecIdent
MaxNameLen == 3
\* longest forceCases list in SpecIdent
MaxForceCases == 2
\* largest Size of a field descriptor in SpecType
MaxSize == 2
\* most columns GetFieldDescriptors returns for one table in Spec
MaxCols == 2

-----------------------------------------------------------------------------
(* Strings and runes *)

NoError == <<>>
Error(msg) == <<msg>>

Ypogegrammeni == "~"
Backtick == "'"

At(s, i) == SubSeq(s, i, i)
Runes(s) == {At(s, i) : i \in 1..Len(s)}

UpperAZ == "ABCDEFGHIJKLMNOPQRSTUVWXYZ"
LowerAZ == "abcdefghijklmnopqrstuvwxyz"
DecimalDigits == "0123456789"

UpperRunes == Runes(UpperAZ)
LowerRunes == Runes(LowerAZ)
DigitRunes == Runes(DecimalDigits)

\* the upper-case letter at the place of a lower-case one, and back
UpperOf == [r \in LowerRunes |-> At(UpperAZ, CHOOSE i \in 1..26 : At(LowerAZ, i) = r)]
LowerOf == [r \in UpperRunes |-> At(LowerAZ, CHOOSE i \in 1..26 : At(UpperAZ, i) = r)]

\* unicode.IsUpper, unicode.IsLetter, unicode.IsDigit on the runes of the model:
\* ASCII, GREEK SMALL LETTER IOTA (U+03B9), GREEK CAPITAL LETTER IOTA (U+0399)
\* and U+0345, a nonspacing mark (category Mn), which is no letter.
IsUpper(r) == r \in UpperRunes \/ r = "Ι"
IsLetter(r) == r \in UpperRunes \/ r \in LowerRunes \/ r \in {"ι", "Ι"}
IsDigit(r) == r \in DigitRunes

\* unicode.ToUpper: U+03B9 and U+0345 both have the upper case U+0399.
RuneToUpper(r) ==
    IF r \in LowerRunes THEN UpperOf[r]
    ELSE IF r \in {"ι", Ypogegrammeni} THEN "Ι"
    ELSE r

\* unicode.ToLower: U+0345 has no lower case of its own.
RuneToLower(r) ==
    IF r \in UpperRunes THEN LowerOf[r]
    ELSE IF r = "Ι" THEN "ι"
    ELSE r

\* The runes unicode.SimpleFold cycles through from r (its case orbit):
\* U+0345 -> U+0399 -> U+03B9 -> U+1FBE -> U+0345; an ASCII letter and its
\* other case.
FoldOrbit(r) ==
    IF r \in {"ι", "Ι", Ypogegrammeni}
    THEN {"ι", "Ι", Ypogegrammeni}
    ELSE {r, RuneToUpper(r), RuneToLower(r)}

\* strings.EqualFold: rune by rune, equal under simple case folding
EqualFold(s, t) ==
    /\ Len(s) = Len(t)
    /\ \A i \in 1..Len(s) : At(t, i) \in FoldOrbit(At(s, i))

RECURSIVE ToLower(_)
\* strings.ToLower
ToLower(s) == IF s = "" THEN "" ELSE RuneToLower(Head(s)) \o ToLower(Tail(s))

RECURSIVE ToUpper(_)
\* strings.ToUpper (used to build raw types in other letter cases)
ToUpper(s) == IF s = "" THEN "" ELSE RuneToUpper(Head(s)) \o ToUpper(Tail(s))

\* strings.HasPrefix
HasPrefix(s, prefix) ==
    Len(prefix) <= Len(s) /\ SubSeq(s, 1, Len(prefix)) = prefix

RECURSIVE SplitFrom(_, _, _, _)
SplitFrom(s, sep, cur, acc) ==
    IF s = "" THEN Append(acc, cur)
    ELSE IF Head(s) = sep THEN SplitFrom(Tail(s), sep, "", Append(acc, cur))
    ELSE SplitFrom(Tail(s), sep, cur \o Head(s), acc)

\* strings.Split with a one-rune separator
Split(s, sep) == SplitFrom(s, sep, "", <<>>)

RECURSIVE Concat(_)
\* the strings of a sequence, one after the other
Concat(ss) == IF ss = <<>> THEN "" ELSE Head(ss) \o Concat(Tail(ss))

RECURSIVE ReplaceAll(_, _, _)
\* strings.ReplaceAll with a one-rune pattern
ReplaceAll(s, old, new) ==
    IF s = "" THEN ""
    ELSE (IF Head(s) = old THEN new ELSE Head(s)) \o ReplaceAll(Tail(s), old, new)

RECURSIVE StringsOfLen(_, _)
StringsOfLen(alphabet, n) ==
    IF n = 0 THEN {""}
    ELSE {s \o r : s \in StringsOfLen(alphabet, n - 1), r \in alphabet}

StringsUpTo(alphabet, n) == UNION {StringsOfLen(alphabet, k) : k \in 0..n}
SeqsUpTo(S, n) == UNION {[1..k -> S] : k \in 0..n}

-----------------------------------------------------------------------------
(* convertToExportedIdentifier *)

RECURSIVE ScanWords(_, _, _)
\* the first loop: a word starts at a letter or digit that follows a
\* separator (or the start); its first rune is upper-cased
ScanWords(s, words, nextCharShouldBeUpperCase) ==
    IF s = "" THEN words
    ELSE LET r == Head(s) IN
         IF IsLetter(r) \/ IsDigit(r)
         THEN IF nextCharShouldBeUpperCase
              THEN ScanWords(Tail(s), Append(words, RuneToUpper(r)), FALSE)
              ELSE ScanWords(Tail(s),
                             [words EXCEPT ![Len(words)] = @ \o r], FALSE)
         ELSE ScanWords(Tail(s), words, TRUE)

\* the inner loop: the first entry of forceCases that equals the word under
\* case folding replaces it
ForceCase(word, forceCases) ==
    IF \E i \in 1..Len(forceCases) : EqualFold(word, forceCases[i])
    THEN forceCases[CHOOSE i \in 1..Len(forceCases) :
            /\ EqualFold(word, forceCases[i])
            /\ \A j \in 1..(i - 1) : ~EqualFold(word, forceCases[j])]
    ELSE word

\* the second loop: the words, each replaced by its forced casing, joined
forceWords(words, forceCases) ==
    Concat([i \in 1..Len(words) |-> ForceCase(words[i], forceCases)])

\* the sentinel prefixed to every result
ensureExported_Always(res) == "E" \o res

\* the end of the function: "E" before a result that is empty or does not
\* start with an upper-case letter
ensureExported(res) ==
    IF res = "" \/ ~IsUpper(Head(res)) THEN "E" \o res ELSE res

convertToExportedIdentifier(s, forceCases) ==
    ensureExported(forceWords(ScanWords(s, <<>>, TRUE), forceCases))

-----------------------------------------------------------------------------
(* getType *)

\* the switch on the lower-cased raw type t: <<goType, fieldClass, recognized>>
switchType(t, size) ==
    CASE t = "tinyint" -> <<"int8", "NumberField", TRUE>>
      [] t = "smallint" -> <<"int16", "NumberField", TRUE>>
      [] t \in {"int", "mediumint"} -> <<"int32", "NumberField", TRUE>>
      [] t \in {"bigint", "integer"} -> <<"int64", "NumberField", TRUE>>
      [] t \in {"float", "double", "decimal", "real"} ->
            <<"float64", "NumberField", TRUE>>
      [] t \in {"char", "varchar", "text", "tinytext", "mediumtext", "longtext",
                "enum", "datetime", "date", "time", "timestamp", "json",
                "numeric", "character varying"} ->
            <<"string", "StringField", TRUE>>
      [] t \in {"binary", "varbinary", "blob", "tinyblob", "mediumblob",
                "longblob"} ->
            <<"string", "StringField", TRUE>>
      [] t \in {"geometry", "point", "linestring", "polygon", "multipoint",
                "multilinestring", "multipolygon", "geometrycollection"} ->
            <<"sqlingo.WellKnownBinary", "WellKnownBinaryField", TRUE>>
      [] t = "bit" ->
            IF size = 1
            THEN <<"bool", "BooleanField", TRUE>>
            ELSE <<"string", "StringField", TRUE>>
      [] OTHER -> <<"", "", FALSE>>

\* the unsigned variant given to every type
unsignedVariant_Any(fieldDescriptor, goType) ==
    IF fieldDescriptor.Unsigned THEN "u" \o goType ELSE goType

\* goType after the Unsigned test
unsignedVariant(fieldDescriptor, goType) ==
    IF fieldDescriptor.Unsigned /\ HasPrefix(goType, "int")
    THEN "u" \o goType ELSE goType

\* goType after the AllowNull test
nullable(fieldDescriptor, goType) ==
    IF fieldDescriptor.AllowNull THEN "*" \o goType ELSE goType

\* what getType returns once the switch has given sw
afterSwitch(fieldDescriptor, sw) ==
    IF ~sw[3]
    THEN [goType |-> "", fieldClass |-> "",
          err |-> Error("unknown field type " \o fieldDescriptor.Type)]
    ELSE [goType |-> nullable(fieldDescriptor,
                              unsignedVariant(fieldDescriptor, sw[1])),
          fieldClass |-> sw[2], err |-> NoError]

getType(fieldDescriptor) ==
    afterSwitch(fieldDescriptor,
                switchType(ToLower(fieldDescriptor.Type), fieldDescriptor.Size))

-----------------------------------------------------------------------------
(* The collaborators: database/sql, the schema fetchers, the file system *)

\* getSchemaFetcherFactory's three constructors
SupportedDrivers == {"mysql", "sqlite3", "postgres"}

RECURSIVE Doubling(_, _)
\* every occurrence of the quote rune written twice
Doubling(s, q) ==
    IF s = "" THEN ""
    ELSE (IF Head(s) = q THEN q \o q ELSE Head(s)) \o Doubling(Tail(s), q)

\* schemaFetcher.QuoteIdentifier of the three engines: backticks for MySQL,
\* double quotes for SQLite and Postgres
QuoteMark(schemaFetcher) == IF schemaFetcher = "mysql" THEN Backtick ELSE "\""

QuoteIdentifier(schemaFetcher, identifier) ==
    QuoteMark(schemaFetcher) \o Doubling(identifier, QuoteMark(schemaFetcher))
        \o QuoteMark(schemaFetcher)

RECURSIVE Escaped(_)
Escaped(s) ==
    IF s = "" THEN ""
    ELSE (CASE Head(s) = "\"" -> "\\\""
            [] Head(s) = "\\" -> "\\\\"
            [] Head(s) = "\n" -> "\\n"
            [] Head(s) = "\t" -> "\\t"
            [] OTHER -> Head(s)) \o Escaped(Tail(s))

\* strconv.Quote: a Go string literal
Quote(s) == "\"" \o Escaped(s) \o "\""

-----------------------------------------------------------------------------
(* ensureIdentifier, newBuffWithBaseHeader *)

\* a rune the regular expression \W does not match
IsWordRune(r) ==
    r \in UpperRunes \/ r \in LowerRunes \/ r \in DigitRunes \/ r = "_"

RECURSIVE ReplaceNonWord(_)
ReplaceNonWord(s) ==
    IF s = "" THEN ""
    ELSE (IF IsWordRune(Head(s)) THEN Head(s) ELSE "_") \o ReplaceNonWord(Tail(s))

underscoreFirst(res) ==
    IF res = "" \/ Head(res) \in DigitRunes THEN "_" \o res ELSE res

ensureIdentifier(name) == underscoreFirst(ReplaceNonWord(name))

\* the header of every unit: the two notice lines, the package clause and the
\* import (the notices and the import are fixed text)
newBuffWithBaseHeader(packageName) ==
    [package |-> ensureIdentifier(packageName) \o "_dsl",
     import |-> "github.com/lqs/sqlingo"]

sqlingoGeneratorVersion == 2

-----------------------------------------------------------------------------
(* WriteToFile *)

\* What the file system does with one call: whether the path exists, what is
\* typed at the prompt, whether OpenFile and WriteString succeed.
FileSystemOutcomes ==
    {[exists |-> TRUE, override |-> "n", open |-> TRUE, write |-> TRUE],
     [exists |-> TRUE, override |-> "", open |-> FALSE, write |-> FALSE],
     [exists |-> FALSE, override |-> "", open |-> TRUE, write |-> FALSE]}

\* WriteToFile: the error returned and what became of the file.  The error of
\* PathExists is dropped, and so is the one of WriteString.
WriteToFile(buffer, outputFile, force, fs) ==
    IF fs.exists /\ ~force /\ fs.override # "Y" /\ fs.override # "y"
    THEN [err |-> NoError, file |-> "skipped"]
    ELSE IF ~fs.open
    THEN [err |-> Error("open " \o outputFile \o ": permission denied"),
          file |-> "untouched"]
    ELSE [err |-> NoError,
          file |-> IF fs.write THEN "written" ELSE "truncated"]

-----------------------------------------------------------------------------
(* generateGetTable, generateTable *)

\* A buffer of generated lines is the sequence of its lines, and a line is a
\* tag followed by the values Sprintf puts into the line's format.

generateGetTable(opts) ==
    [cases |-> [i \in 1..Len(opts.tableNames) |->
                   <<"case", Quote(opts.tableNames[i]),
                     convertToExportedIdentifier(opts.tableNames[i], opts.forceCases)>>],
     list |-> [i \in 1..Len(opts.tableNames) |->
                   convertToExportedIdentifier(opts.tableNames[i], opts.forceCases)]]

\* privateFieldClass: the first byte moved from upper to lower case
privateFieldClassOf(fieldClass) ==
    RuneToLower(Head(fieldClass)) \o Tail(fieldClass)

\* the wrapper name without the table's identifier
fieldStructNameOf_NoTable(rawType, className, goName) ==
    ToLower(rawType) \o "_" \o goName

\* fieldStructName
fieldStructNameOf(rawType, className, goName) ==
    ToLower(rawType) \o "_" \o className \o "_" \o goName

EmptyLines ==
    [tableLines |-> <<>>, modelLines |-> <<>>, objectLines |-> <<>>,
     fieldCaseLines |-> <<>>, classLines |-> <<>>, fields |-> <<>>,
     fieldsSQL |-> "", fullFieldsSQL |-> "", values |-> <<>>]

CommentLines(fieldDescriptor) ==
    IF fieldDescriptor.Comment # ""
    THEN <<(<<"comment", ReplaceAll(fieldDescriptor.Comment, "\n", " ")>>)>>
    ELSE <<>>

\* the value sequence written at the front instead of the end
valuesWrite_Front(values, goName) == <<goName>> \o values

\* values.WriteString: the column's value joins the end of the value sequence
valuesWrite(values, goName) == Append(values, goName)

\* the lines one column adds to the nine buffers
EmitLines(b, fieldDescriptor, t, ctx, goName, fieldStructName, comment, quoted) ==
    [tableLines |-> b.tableLines \o comment
                      \o <<(<<"field", goName, fieldStructName>>)>>,
     modelLines |-> b.modelLines \o comment \o <<(<<"field", goName, t.goType>>)>>,
     objectLines |-> b.objectLines \o comment
                      \o <<(<<"init", goName, fieldStructName, t.fieldClass,
                             ctx.tableObjectName, Quote(fieldDescriptor.Name)>>)>>,
     fieldCaseLines |-> Append(b.fieldCaseLines,
                               <<"case", Quote(fieldDescriptor.Name), goName>>),
     classLines |-> Append(b.classLines,
                           <<"type", fieldStructName,
                             privateFieldClassOf(t.fieldClass)>>),
     fields |-> Append(b.fields, goName),
     fieldsSQL |-> (IF Len(b.fieldsSQL) # 0 THEN b.fieldsSQL \o ", " ELSE "")
                     \o quoted,
     fullFieldsSQL |-> (IF Len(b.fullFieldsSQL) # 0
                        THEN b.fullFieldsSQL \o ", " ELSE "")
                     \o QuoteIdentifier(ctx.schemaFetcher, ctx.tableName)
                     \o "." \o quoted,
     values |-> valuesWrite(b.values, goName)]

EmitNamed(b, fieldDescriptor, t, ctx, goName) ==
    EmitLines(b, fieldDescriptor, t, ctx, goName,
              fieldStructNameOf(fieldDescriptor.Type, ctx.className, goName),
              CommentLines(fieldDescriptor),
              QuoteIdentifier(ctx.schemaFetcher, fieldDescriptor.Name))

\* one pass of the column loop, after getType has returned t without error
EmitColumn(b, fieldDescriptor, t, ctx) ==
    EmitNamed(b, fieldDescriptor, t, ctx,
              convertToExportedIdentifier(fieldDescriptor.Name, ctx.forceCases))

RECURSIVE EmitColumns(_, _, _)
RECURSIVE EmitTyped(_, _, _, _)
\* the column loop: stops at the first descriptor getType rejects
EmitColumns(fieldDescriptors, b, ctx) ==
    IF fieldDescriptors = <<>> THEN [err |-> NoError, lines |-> b]
    ELSE EmitTyped(fieldDescriptors, b, ctx, getType(Head(fieldDescriptors)))

EmitTyped(fieldDescriptors, b, ctx, t) ==
    IF t.err # NoError THEN [err |-> t.err, lines |-> b]
    ELSE EmitColumns(Tail(fieldDescriptors),
                     EmitColumn(b, Head(fieldDescriptors), t, ctx), ctx)

ContextOf(schemaFetcher, tableName, forceCases, className) ==
    [schemaFetcher |-> schemaFetcher, tableName |-> tableName,
     forceCases |-> forceCases, className |-> className,
     tableStructName |-> "t" \o className,
     tableObjectName |-> "o" \o className,
     modelClassName |-> className \o "Model"]

TableContext(schemaFetcher, tableName, forceCases) ==
    ContextOf(schemaFetcher, tableName, forceCases,
              convertToExportedIdentifier(tableName, forceCases))

TableUnit(dbNameArg, ctx, lines) ==
    [kind |-> "table",
     header |-> newBuffWithBaseHeader(dbNameArg),
     tableStructName |-> ctx.tableStructName,
     tableObjectName |-> ctx.tableObjectName,
     newTable |-> Quote(ctx.tableName),
     className |-> ctx.className,
     modelClassName |-> ctx.modelClassName,
     tableLines |-> lines.tableLines,
     classLines |-> lines.classLines,
     objectLines |-> <<(<<"table", ctx.tableObjectName>>)>> \o lines.objectLines,
     fields |-> lines.fields,
     fieldCaseLines |-> lines.fieldCaseLines,
     fieldsSQL |-> Quote(lines.fieldsSQL),
     fullFieldsSQL |-> Quote(lines.fullFieldsSQL),
     modelLines |-> lines.modelLines,
     values |-> lines.values]

\* the call made to the sink and the error it gave
SinkCall(path, buf, w) ==
    [err |-> w.err, written |-> <<[path |-> path, unit |-> buf, file |-> w.file]>>]

WriteUnit(path, buf, fs) == SinkCall(path, buf, WriteToFile(buf, path, TRUE, fs))

\* a unit written although getType rejected a column
afterColumns_WriteAnyway(dbNameArg, ctx, cols, fs) ==
    WriteUnit(outputPath \o "/" \o ctx.tableName \o ".go",
              TableUnit(dbNameArg, ctx, cols.lines), fs)

\* generateTable after the column loop: the error of getType, or the unit
\* handed to WriteToFile
afterColumns(dbNameArg, ctx, cols, fs) ==
    IF cols.err # NoError THEN [err |-> cols.err, written |-> <<>>]
    ELSE WriteUnit(outputPath \o "/" \o ctx.tableName \o ".go",
                   TableUnit(dbNameArg, ctx, cols.lines), fs)

\* generateTable after GetFieldDescriptors has returned without error
afterFetch(dbNameArg, ctx, fieldDescriptors, fs) ==
    afterColumns(dbNameArg, ctx, EmitColumns(fieldDescriptors, EmptyLines, ctx), fs)

\* generateTable: fetched is what GetFieldDescriptors returns, fs what the
\* file system does; the result is the error and the call made to the sink
generateTable(schemaFetcher, dbNameArg, tableName, forceCases, fetched, fs) ==
    IF fetched.err # NoError THEN [err |-> fetched.err, written |-> <<>>]
    ELSE afterFetch(dbNameArg, TableContext(schemaFetcher, tableName, forceCases),
                    fetched.ret, fs)

-----------------------------------------------------------------------------
(* The variables of a specification that is not running *)

IdleGen ==
    /\ flagParse = "ok"
    /\ driverName = "" /\ registered = FALSE /\ outputPath = ""
    /\ databaseConnection = "" /\ tables = "" /\ forcecases = ""
    /\ pc = "idle" /\ options = [tableNames |-> <<>>, forceCases |-> <<>>]
    /\ fetcher = "" /\ dbName = "" /\ idx = 0 /\ calls = <<>> /\ sink = <<>>
    /\ result = NoError /\ exitCode = 0

IdleIdent ==
    /\ idPc = "idle" /\ idIn = "" /\ idFc = <<>> /\ idOut = "" /\ idAgain = ""

IdleType ==
    /\ tPc = "idle"
    /\ fd = [Name |-> "", Type |-> "", Size |-> 0, Unsigned |-> FALSE,
             AllowNull |-> FALSE, Comment |-> ""]
    /\ mapped = [goType |-> "", fieldClass |-> "", err |-> NoError]

-----------------------------------------------------------------------------
(* Spec: one run of Generate *)

\* what flag.Parse makes of the command line: every flag is defined and has
\* its value, a flag is not defined or lacks its value, or -h / -help is given
FlagParseOutcomes == {"ok", "undefined", "help"}

\* the status flag.Parse ends the process with (flag.CommandLine is set to
\* ExitOnError): 2 after an error; after -h, 0 or, in older Go releases, 2
flagParseExit(outcome) == IF outcome = "help" THEN {0, 2} ELSE {2}

\* the driver names of a run: an engine that quotes with backticks, one that
\* quotes with double quotes, and a name getSchemaFetcherFactory does not know
DriverNames == {"mysql", "postgres", "oracle"}

\* the -t lists of a run: none, one table, two tables
TablesFlags == {"", "a", "b,a"}

\* the -forcecases lists of a run
ForceCasesFlags == {"", "ID"}

\* what GetDatabaseName can return
DatabaseNameOutcomes ==
    {[ret |-> "", err |-> Error("driver: bad connection")],
     [ret |-> "", err |-> NoError],
     [ret |-> "my-db", err |-> NoError]}

\* what GetTableNames can return: an error, no table, two tables whose names
\* differ in letter case only
TableNamesOutcomes ==
    {[ret |-> <<>>, err |-> Error("driver: bad connection")],
     [ret |-> <<>>, err |-> NoError],
     [ret |-> <<"a", "A">>, err |-> NoError]}

\* the columns a table can have: two whose names differ in letter case only
\* and whose types are the same family, one of the name of the first and of
\* another family, one of a type getType does not know
ColumnChoices ==
    {[Name |-> "id", Type |-> "BIGINT", Size |-> 20, Unsigned |-> TRUE,
      AllowNull |-> TRUE, Comment |-> "free\ntext"],
     [Name |-> "ID", Type |-> "bigint", Size |-> 20, Unsigned |-> FALSE,
      AllowNull |-> FALSE, Comment |-> ""],
     [Name |-> "id", Type |-> "geometry", Size |-> 0, Unsigned |-> FALSE,
      AllowNull |-> FALSE, Comment |-> ""],
     [Name |-> "x", Type |-> "uuid", Size |-> 0, Unsigned |-> FALSE,
      AllowNull |-> FALSE, Comment |-> ""]}

\* what GetFieldDescriptors can return: an error, or any list of columns
FieldDescriptorsOutcomes ==
    {[ret |-> <<>>, err |-> Error("driver: bad connection")]}
        \cup {[ret |-> ds, err |-> NoError] : ds \in SeqsUpTo(ColumnChoices, MaxCols)}

Init ==
    /\ flagParse \in FlagParseOutcomes
    /\ driverName \in DriverNames
    /\ registered \in BOOLEAN
    /\ outputPath \in {"", "out"}
    /\ databaseConnection \in {"", "dsn"}
    /\ tables \in TablesFlags
    /\ forcecases \in ForceCasesFlags
    /\ pc = "Configuring"
    /\ options = [tableNames |-> <<>>, forceCases |-> <<>>]
    /\ fetcher = ""
    /\ dbName = ""
    /\ idx = 0
    /\ calls = <<>>
    /\ sink = <<>>
    /\ result = NoError
    /\ exitCode = 0
    /\ IdleIdent
    /\ IdleType

flags == <<flagParse, driverName, registered, outputPath, databaseConnection, tables, forcecases>>
others == <<flags, identVars, typeVars>>

\* the options built with the -t list left out
parseOptions_NoTables(tablesFlag, forcecasesFlag) ==
    [tableNames |-> <<>>,
     forceCases |-> IF Len(forcecasesFlag) # 0 THEN Split(forcecasesFlag, ",") ELSE <<>>]

\* the options built from the flags
parseOptions(tablesFlag, forcecasesFlag) ==
    [tableNames |-> IF Len(tablesFlag) # 0 THEN Split(tablesFlag, ",") ELSE <<>>,
     forceCases |-> IF Len(forcecasesFlag) # 0 THEN Split(forcecasesFlag, ",") ELSE <<>>]

\* flag.Parse (which ends the process when the command line is in error or
\* asks for help), the two usage checks (printUsageAndExit ends the process
\* with status 1) and the options
Configure ==
    /\ pc = "Configuring"
    /\ IF flagParse # "ok"
       THEN /\ pc' = "exited"
            /\ exitCode' \in flagParseExit(flagParse)
            /\ UNCHANGED options
       ELSE IF Len(outputPath) = 0 \/ Len(databaseConnection) = 0
       THEN /\ pc' = "exited"
            /\ exitCode' = 1
            /\ UNCHANGED options
       ELSE /\ pc' = "Connecting"
            /\ options' = parseOptions(tables, forcecases)
            /\ UNCHANGED exitCode
    /\ UNCHANGED <<fetcher, dbName, idx, calls, sink, result, others>>

\* sql.Open: fails when no driver is registered under the name, and may fail
\* for a registered one (a data source name the driver rejects)
Connect ==
    /\ pc = "Connecting"
    /\ \E ok \in BOOLEAN :
          IF registered /\ ok
          THEN /\ pc' = "SelectingFetcher"
               /\ UNCHANGED result
          ELSE /\ pc' = "returned"
               /\ result' = IF registered
                            THEN Error("invalid data source name")
                            ELSE Error("sql: unknown driver " \o Quote(driverName)
                                       \o " (forgotten import?)")
    /\ UNCHANGED <<options, fetcher, dbName, idx, calls, sink, exitCode, others>>

\* a factory for every name
getSchemaFetcherFactory_Default(name) ==
    [fetcher |-> IF name \in SupportedDrivers THEN name ELSE "mysql", exit |-> 0]

\* getSchemaFetcherFactory: the engine's constructor, or os.Exit(2)
getSchemaFetcherFactory(name) ==
    CASE name = "mysql" -> [fetcher |-> "mysql", exit |-> 0]
      [] name = "sqlite3" -> [fetcher |-> "sqlite3", exit |-> 0]
      [] name = "postgres" -> [fetcher |-> "postgres", exit |-> 0]
      [] OTHER -> [fetcher |-> "", exit |-> 2]

Selected(f) ==
    IF f.exit # 0
    THEN /\ pc' = "exited"
         /\ exitCode' = f.exit
         /\ UNCHANGED fetcher
    ELSE /\ pc' = "DiscoveringDatabase"
         /\ fetcher' = f.fetcher
         /\ UNCHANGED exitCode

SelectFetcher ==
    /\ pc = "SelectingFetcher"
    /\ Selected(getSchemaFetcherFactory(driverName))
    /\ UNCHANGED <<options, dbName, idx, calls, sink, result, others>>

DiscoverDatabase ==
    /\ pc = "DiscoveringDatabase"
    /\ \E got \in DatabaseNameOutcomes :
          /\ calls' = Append(calls, [op |-> "GetDatabaseName", arg |-> "",
                                     ret |-> got.ret, err |-> got.err])
          /\ IF got.err # NoError
             THEN pc' = "returned" /\ result' = got.err /\ UNCHANGED dbName
             ELSE IF got.ret = ""
             THEN /\ pc' = "returned"
                  /\ result' = Error("no database selected")
                  /\ UNCHANGED dbName
             ELSE pc' = "DiscoveringTables" /\ dbName' = got.ret /\ UNCHANGED result
    /\ UNCHANGED <<options, fetcher, idx, sink, exitCode, others>>

\* the table list: the explicit one, or the one GetTableNames returns
DiscoverTables ==
    /\ pc = "DiscoveringTables"
    /\ IF Len(options.tableNames) = 0
       THEN \E got \in TableNamesOutcomes :
              /\ calls' = Append(calls, [op |-> "GetTableNames", arg |-> "",
                                         ret |-> got.ret, err |-> got.err])
              /\ options' = [options EXCEPT !.tableNames = got.ret]
              /\ IF got.err # NoError
                 THEN pc' = "returned" /\ result' = got.err
                 ELSE pc' = "EmittingBase" /\ UNCHANGED result
       ELSE /\ pc' = "EmittingBase"
            /\ UNCHANGED <<calls, options, result>>
    /\ UNCHANGED <<fetcher, dbName, idx, sink, exitCode, others>>

\* the base unit: header, version guard, capability aliases, GetTable and
\* GetTables
BaseUnit ==
    [kind |-> "base",
     header |-> newBuffWithBaseHeader(dbName),
     guard |-> <<sqlingoGeneratorVersion, sqlingoGeneratorVersion>>,
     aliases |-> <<"table", "numberField", "stringField", "booleanField">>,
     getTable |-> generateGetTable(options)]

BaseWritten(g) ==
    /\ sink' = sink \o g.written
    /\ IF g.err # NoError
       THEN pc' = "returned" /\ result' = g.err /\ UNCHANGED idx
       ELSE pc' = "EmittingTables" /\ idx' = 1 /\ UNCHANGED result

EmitBase ==
    /\ pc = "EmittingBase"
    /\ \E fs \in FileSystemOutcomes :
          BaseWritten(WriteUnit(outputPath \o "/base.dsl.go", BaseUnit, fs))
    /\ UNCHANGED <<options, fetcher, dbName, calls, exitCode, others>>

TableGenerated(tableName, fetched, g) ==
    /\ calls' = Append(calls, [op |-> "GetFieldDescriptors", arg |-> tableName,
                               ret |-> fetched.ret, err |-> fetched.err])
    /\ sink' = sink \o g.written
    /\ IF g.err # NoError
       THEN pc' = "returned" /\ result' = g.err /\ UNCHANGED idx
       ELSE idx' = idx + 1 /\ UNCHANGED <<pc, result>>

\* one pass of the loop over options.tableNames
EmitTable ==
    /\ pc = "EmittingTables"
    /\ idx <= Len(options.tableNames)
    /\ \E fetched \in FieldDescriptorsOutcomes, fs \in FileSystemOutcomes :
          TableGenerated(options.tableNames[idx], fetched,
                         generateTable(fetcher, dbName, options.tableNames[idx],
                                       options.forceCases, fetched, fs))
    /\ UNCHANGED <<options, fetcher, dbName, exitCode, others>>

\* the loop is over: return err, which is nil
Finish ==
    /\ pc = "EmittingTables"
    /\ idx > Len(options.tableNames)
    /\ pc' = "returned"
    /\ result' = NoError
    /\ UNCHANGED <<options, fetcher, dbName, idx, calls, sink, exitCode, others>>

Next ==
    \/ Configure
    \/ Connect
    \/ SelectFetcher
    \/ DiscoverDatabase
    \/ DiscoverTables
    \/ EmitBase
    \/ EmitTable
    \/ Finish

Spec == Init /\ [][Next]_vars

-----------------------------------------------------------------------------
(* SpecIdent, SpecFold: convertToExportedIdentifier on a raw name, then on   *)
(* its output                                                                *)

\* runes of the raw names: letters of both cases, a digit, a separator and a
\* letter outside ASCII
NameRunes == {"a", "b", "A", "1", "_", "ι"}

\* entries of the -forcecases list: lower-case and upper-case words, a letter
\* outside ASCII and the empty entry that "-forcecases a,,b" yields
ForceCaseWords == {"ab", "AB", "a", "ι", ""}

\* entries of the -forcecases list with the rune U+0345, which is no letter
\* and has the case orbit of the letter iota
FoldCaseWords == {"a", Ypogegrammeni}

IdentInit ==
    /\ idPc = "input"
    /\ idIn \in StringsUpTo(NameRunes, MaxNameLen)
    /\ idFc \in SeqsUpTo(ForceCaseWords, MaxForceCases)
    /\ idOut = ""
    /\ idAgain = ""
    /\ IdleGen
    /\ IdleType

FoldInit ==
    /\ idPc = "input"
    /\ idIn \in StringsUpTo(NameRunes, MaxNameLen)
    /\ idFc \in SeqsUpTo(FoldCaseWords, MaxForceCases)
    /\ idOut = ""
    /\ idAgain = ""
    /\ IdleGen
    /\ IdleType

Normalize ==
    /\ idPc = "input"
    /\ idOut' = convertToExportedIdentifier(idIn, idFc)
    /\ idPc' = "normalized"
    /\ UNCHANGED <<idIn, idFc, idAgain, genVars, typeVars>>

Renormalize ==
    /\ idPc = "normalized"
    /\ idAgain' = convertToExportedIdentifier(idOut, idFc)
    /\ idPc' = "renormalized"
    /\ UNCHANGED <<idIn, idFc, idOut, genVars, typeVars>>

IdentNext == Normalize \/ Renormalize

SpecIdent == IdentInit /\ [][IdentNext]_vars

SpecFold == FoldInit /\ [][IdentNext]_vars

-----------------------------------------------------------------------------
(* SpecType: getType on one field descriptor *)

RecognizedTypes ==
    {"tinyint", "smallint", "int", "mediumint", "bigint", "integer",
     "float", "double", "decimal", "real",
     "char", "varchar", "text", "tinytext", "mediumtext", "longtext", "enum",
     "datetime", "date", "time", "timestamp", "json", "numeric",
     "character varying",
     "binary", "varbinary", "blob", "tinyblob", "mediumblob", "longblob",
     "geometry", "point", "linestring", "polygon", "multipoint",
     "multilinestring", "multipolygon", "geometrycollection", "bit"}

\* raw types no family holds
UnrecognizedTypes ==
    {"", "uuid", "bool", "boolean", "year", "int unsigned", "bigint(20)",
     "double precision", "bytea", "int ", "tiny_int"}

\* first rune in upper case, as some catalogs report types
Capitalize(s) == IF s = "" THEN "" ELSE RuneToUpper(Head(s)) \o Tail(s)

RawTypes ==
    RecognizedTypes \cup UnrecognizedTypes
        \cup {ToUpper(t) : t \in RecognizedTypes \cup UnrecognizedTypes}
        \cup {Capitalize(t) : t \in RecognizedTypes}

TypeInit ==
    /\ tPc = "input"
    /\ fd \in [Name : {"c"}, Type : RawTypes, Size : 0..MaxSize,
               Unsigned : BOOLEAN, AllowNull : BOOLEAN, Comment : {""}]
    /\ mapped = [goType |-> "", fieldClass |-> "", err |-> NoError]
    /\ IdleGen
    /\ IdleIdent

CallGetType ==
    /\ tPc = "input"
    /\ mapped' = getType(fd)
    /\ tPc' = "mapped"
    /\ UNCHANGED <<fd, genVars, identVars>>

TypeNext == CallGetType

SpecType == TypeInit /\ [][TypeNext]_vars

\* the mapping table of the specification: family -> <<category, base type>>
SpecFamilyOf(t, size) ==
    CASE t = "tinyint" -> <<"NumberField", "int8">>
      [] t = "smallint" -> <<"NumberField", "int16">>
      [] t \in {"int", "mediumint"} -> <<"NumberField", "int32">>
      [] t \in {"bigint", "integer"} -> <<"NumberField", "int64">>
      [] t \in {"float", "double", "decimal", "real"} -> <<"NumberField", "float64">>
      [] t \in {"geometry", "point", "linestring", "polygon", "multipoint",
                "multilinestring", "multipolygon", "geometrycollection"} ->
            <<"WellKnownBinaryField", "sqlingo.WellKnownBinary">>
      [] t = "bit" /\ size = 1 -> <<"BooleanField", "bool">>
      [] OTHER -> <<"StringField", "string">>

IntegerTypes == {"int8", "int16", "int32", "int64"}

\* C5: getType follows the mapping table: family from the lower-cased raw type
\* (and the size, for bit), then the unsigned variant exactly for an unsigned
\* integer, then the optional wrapper exactly for a nullable column; an
\* unrecognized raw type gives an error with empty type and empty category.
C5_TypeMapping ==
    tPc = "mapped" =>
        LET t == ToLower(fd.Type)
            fam == SpecFamilyOf(t, fd.Size)
            scalar == IF fd.Unsigned /\ fam[2] \in IntegerTypes
                      THEN "u" \o fam[2] ELSE fam[2]
            wrapped == IF fd.AllowNull THEN "*" \o scalar ELSE scalar
        IN IF t \in RecognizedTypes
           THEN /\ mapped.err = NoError
                /\ mapped.fieldClass = fam[1]
                /\ mapped.goType = wrapped
           ELSE /\ mapped.err # NoError
                /\ mapped.goType = ""
                /\ mapped.fieldClass = ""

\* an unsigned nullable float column written in upper case has been mapped
C5_Witness ==
    /\ tPc = "mapped"
    /\ fd.Type = "DOUBLE" /\ fd.Unsigned /\ fd.AllowNull
    /\ mapped.goType = "*float64"

-----------------------------------------------------------------------------
(* Claims about convertToExportedIdentifier *)

OnlyLettersAndDigits(s) == \A r \in Runes(s) : IsLetter(r) \/ IsDigit(r)

\* C6: the output of convertToExportedIdentifier is never empty, starts with
\* an upper-case letter and holds nothing but letters and digits, whatever the
\* raw name and the forceCases list.
C6_ExportedIdentifier ==
    idPc # "input" =>
        /\ idOut # ""
        /\ IsUpper(Head(idOut))
        /\ OnlyLettersAndDigits(idOut)

\* C7 as stated: normalizing the output again returns the output, whatever
\* the raw name and the forceCases list.
C7_Idempotent ==
    idPc = "renormalized" => OnlyLettersAndDigits(idOut) /\ idAgain = idOut

\* the case C7 as amended covers: the entries of forceCases hold only letters
\* and digits, and an entry that equals the output under case folding is the
\* output itself
C7_Stable ==
    /\ \A i \in 1..Len(idFc) : OnlyLettersAndDigits(idFc[i])
    /\ \A i \in 1..Len(idFc) : EqualFold(idOut, idFc[i]) => idFc[i] = idOut

\* C7 as amended: normalizing the output again returns the output whenever
\* the entries of forceCases hold only letters and digits and none of them
\* other than the output itself equals the output under case folding (always
\* so when forceCases is empty).
C7_IdempotentWhenStable ==
    (idPc = "renormalized" /\ C7_Stable) =>
        OnlyLettersAndDigits(idOut) /\ idAgain = idOut

\* a name of two words, forced to a casing that is the output itself,
\* normalized twice
C7_Witness ==
    /\ idPc = "renormalized"
    /\ C7_Stable
    /\ idIn = "a_b"
    /\ \E i \in 1..Len(idFc) : EqualFold(idOut, idFc[i])
    /\ idAgain = "AB"

-----------------------------------------------------------------------------
(* Claims about a run of Generate *)

FetchCalls == SelectSeq(calls, LAMBDA c : c.op = "GetFieldDescriptors")
TableSink == SelectSeq(sink, LAMBDA w : w.unit.kind = "table")
BaseSink == SelectSeq(sink, LAMBDA w : w.unit.kind = "base")

\* the columns of a fetched table no family of the mapping table holds
UnknownAt(ds) == {k \in 1..Len(ds) : ToLower(ds[k].Type) \notin RecognizedTypes}

Fails(c) == c.err # NoError \/ UnknownAt(c.ret) # {}

ErrorOf(c) ==
    IF c.err # NoError THEN c.err
    ELSE Error("unknown field type "
               \o c.ret[CHOOSE k \in UnknownAt(c.ret) :
                           \A j \in UnknownAt(c.ret) : k <= j].Type)

\* C1: when GetFieldDescriptors or getType fails for the table at position i,
\* Generate returns that error, the sink has received the base unit and the
\* units of the i-1 tables before it and no other, and the fetcher has been
\* asked about no later table.
C1_FirstFailureAborts ==
    \A i \in 1..Len(FetchCalls) :
        Fails(FetchCalls[i]) =>
            /\ pc = "returned"
            /\ result = ErrorOf(FetchCalls[i])
            /\ i = Len(FetchCalls)
            /\ FetchCalls[i].arg = options.tableNames[i]
            /\ Len(TableSink) = i - 1
            /\ Len(BaseSink) = 1
            /\ Len(sink) = i

\* the first of two tables has a column getType rejects after one it maps
C1_Witness ==
    /\ pc = "returned"
    /\ Len(options.tableNames) = 2
    /\ Len(FetchCalls) = 1
    /\ FetchCalls[1].err = NoError
    /\ UnknownAt(FetchCalls[1].ret) = {2}
    /\ result # NoError

\* the table list of the run: the -t list, or what GetTableNames returned
ListedNames ==
    IF tables # "" THEN Split(tables, ",")
    ELSE IF \E i \in 1..Len(calls) :
                calls[i].op = "GetTableNames" /\ calls[i].err = NoError
    THEN calls[CHOOSE i \in 1..Len(calls) : calls[i].op = "GetTableNames"].ret
    ELSE <<>>

\* C2: with a -t list GetTableNames is never called; the table units handed
\* to the sink are those of the listed names (of the names GetTableNames
\* returned, without a -t list), one each and in that order, all of them when
\* Generate returns nil; the base unit is handed to the sink once and first.
C2_TableList ==
    /\ tables # "" => \A i \in 1..Len(calls) : calls[i].op # "GetTableNames"
    /\ Len(TableSink) <= Len(ListedNames)
    /\ \A k \in 1..Len(TableSink) :
          /\ TableSink[k].path = outputPath \o "/" \o ListedNames[k] \o ".go"
          /\ TableSink[k].unit.newTable = Quote(ListedNames[k])
    /\ (pc = "returned" /\ result = NoError) => Len(TableSink) = Len(ListedNames)
    /\ sink # <<>> => sink[1].unit.kind = "base" /\ Len(BaseSink) = 1
    /\ (pc = "returned" /\ result = NoError) => Len(BaseSink) = 1

\* a run with the list "b,a" has returned nil after two table units
C2_Witness ==
    /\ pc = "returned"
    /\ result = NoError
    /\ tables = "b,a"
    /\ Len(TableSink) = 2
    /\ TableSink[1].path = "out/b.go"

\* C3: when Generate returns nil, the base unit and a unit per table have
\* been handed to the sink and the full content of each has been written.
C3_NilMeansWritten ==
    (pc = "returned" /\ result = NoError) =>
        /\ Len(sink) = 1 + Len(options.tableNames)
        /\ \A i \in 1..Len(sink) : sink[i].file = "written"

FieldLines(lines) == SelectSeq(lines, LAMBDA l : l[1] = "field")

RECURSIVE Join(_, _)
\* strings.Join
Join(ss, sep) ==
    IF ss = <<>> THEN ""
    ELSE IF Len(ss) = 1 THEN ss[1]
    ELSE ss[1] \o sep \o Join(Tail(ss), sep)

\* C4: every per-column structure of a table unit has one entry per
\* descriptor GetFieldDescriptors returned, at the descriptor's position: the
\* fields of the model record and of the accessor record, the value sequence,
\* the GetFields list and the two field-name SQL strings.
C4_ColumnOrder ==
    \A i \in 1..Len(TableSink) :
        \A u \in {TableSink[i].unit}, ds \in {FetchCalls[i].ret} :
            \A model \in {FieldLines(u.modelLines)},
               table \in {FieldLines(u.tableLines)} :
                /\ Len(model) = Len(ds)
                /\ Len(table) = Len(ds)
                /\ Len(u.values) = Len(ds)
                /\ Len(u.fields) = Len(ds)
                /\ Len(u.fieldCaseLines) = Len(ds)
                /\ \A k \in 1..Len(ds) :
                      \A goName \in {convertToExportedIdentifier(
                                         ds[k].Name, options.forceCases)} :
                          /\ model[k][2] = goName
                          /\ model[k][3] = getType(ds[k]).goType
                          /\ table[k][2] = goName
                          /\ u.values[k] = goName
                          /\ u.fields[k] = goName
                          /\ u.fieldCaseLines[k][2] = Quote(ds[k].Name)
                /\ u.fieldsSQL
                     = Quote(Join([k \in 1..Len(ds) |->
                                     QuoteIdentifier(fetcher, ds[k].Name)], ", "))
                /\ u.fullFieldsSQL
                     = Quote(Join([k \in 1..Len(ds) |->
                                     QuoteIdentifier(fetcher, FetchCalls[i].arg)
                                         \o "."
                                         \o QuoteIdentifier(fetcher, ds[k].Name)],
                                  ", "))

\* a unit of two different columns, the second with a comment line
C4_Witness ==
    \E i \in 1..Len(TableSink) :
        /\ Len(TableSink[i].unit.values) = 2
        /\ TableSink[i].unit.values = <<"ID", "Id">>
        /\ Len(TableSink[i].unit.modelLines) = 3
        /\ TableSink[i].file = "written"

\* the fields of the units in the sink: <<i, k>> is column k of the i-th
\* table unit, with the table name asked for, the descriptor returned, the
\* wrapper-type name and the alias it embeds
FieldsOf(units, fetched) ==
    [p \in {p \in (1..Len(units)) \X (1..MaxCols) :
               p[2] <= Len(units[p[1]].unit.classLines)} |->
        [table |-> fetched[p[1]].arg,
         column |-> fetched[p[1]].ret[p[2]],
         wrapper |-> units[p[1]].unit.classLines[p[2]][2],
         alias |-> units[p[1]].unit.classLines[p[2]][3]]]

Fields == FieldsOf(TableSink, FetchCalls)

\* C8 as stated: two fields of distinct (table name, column name) pairs never
\* have the same wrapper-type name.
C8_WrapperUnique ==
    LET f == Fields
    IN \A p, q \in DOMAIN f :
          <<f[p].table, f[p].column.Name>> # <<f[q].table, f[q].column.Name>>
              => f[p].wrapper # f[q].wrapper

\* C8 as amended: two fields have the same wrapper-type name if and only if
\* their lower-cased raw types are equal, their tables normalize to the same
\* identifier and their columns normalize to the same identifier.
C8_WrapperUniqueUpToNormalization ==
    \A f \in {Fields} :
        \A x, y \in {[wrapper |-> f[p].wrapper,
                       triple |->
                          <<ToLower(f[p].column.Type),
                            convertToExportedIdentifier(f[p].table,
                                                        options.forceCases),
                            convertToExportedIdentifier(f[p].column.Name,
                                                        options.forceCases)>>] :
                      p \in DOMAIN f} :
            x.wrapper = y.wrapper <=> x.triple = y.triple

\* two tables of different identifiers share a column and its wrapper names
\* differ; two columns of one table and one type family whose names differ in
\* letter case only normalize differently and their wrapper names differ
C8_Witness ==
    LET f == Fields
    IN /\ \E p, q \in DOMAIN f :
             /\ f[p].table = "b" /\ f[q].table = "a"
             /\ f[p].column = f[q].column
             /\ f[p].wrapper # f[q].wrapper
       /\ \E p, q \in DOMAIN f :
             /\ p[1] = q[1]
             /\ f[p].column.Name = "id" /\ f[q].column.Name = "ID"
             /\ ToLower(f[p].column.Type) = ToLower(f[q].column.Type)
             /\ f[p].wrapper # f[q].wrapper

\* C9 as stated: with a driver name outside mysql, sqlite3, postgres the run
\* never returns to its caller, fetches nothing and writes nothing.
C9_UnsupportedDriverExits ==
    driverName \notin SupportedDrivers =>
        /\ pc # "returned"
        /\ calls = <<>>
        /\ sink = <<>>

\* C9 as amended: with such a driver name the run asks the fetcher nothing and
\* hands nothing to the sink.  It ends in flag.Parse (process termination,
\* status 2, or 0 for -h), in the usage check (status 1), in sql.Open failing
\* (Generate returns the error of sql.Open) or, when sql.Open succeeded, in
\* getSchemaFetcherFactory (status 2).
C9_UnsupportedDriverNeverGenerates ==
    driverName \notin SupportedDrivers =>
        /\ calls = <<>>
        /\ sink = <<>>
        /\ fetcher = ""
        /\ pc \in {"Configuring", "Connecting", "SelectingFetcher", "exited",
                   "returned"}
        /\ pc = "exited" =>
              exitCode = IF flagParse = "help" THEN exitCode
                         ELSE IF flagParse = "undefined" THEN 2
                         ELSE IF outputPath = "" \/ databaseConnection = "" THEN 1
                         ELSE 2
        /\ (pc = "exited" /\ flagParse = "help") => exitCode \in {0, 2}
        /\ (pc = "exited" /\ flagParse = "ok" /\ outputPath # ""
               /\ databaseConnection # "") => registered
        /\ pc = "returned" =>
              /\ result # NoError
              /\ flagParse = "ok" /\ outputPath # "" /\ databaseConnection # ""

\* the command line is in order, sql.Open has succeeded for the driver
\* "oracle" and the process has ended with status 2
C9_Witness ==
    /\ driverName = "oracle"
    /\ flagParse = "ok"
    /\ outputPath # "" /\ databaseConnection # ""
    /\ registered
    /\ pc = "exited"
    /\ exitCode = 2

\* C10: the alias a wrapper type of a table unit embeds is one of the aliases
\* the base unit of the run declares.
C10_AliasesDeclared ==
    LET f == Fields
    IN \A p \in DOMAIN f :
          \E a \in 1..Len(BaseSink[1].unit.aliases) :
              BaseSink[1].unit.aliases[a] = f[p].alias

====
